---- MODULE Spec2Model ----
(***************************************************************************)
(* Model of kluchikru/models.py: the account manager (create_user,         *)
(* create_superuser), the relational store with its on_delete=CASCADE      *)
(* foreign keys and field validators, and Advertisement.formatted_price.   *)
(*                                                                         *)
(* Python values: a str is a sequence of code points (97 = "a", 65 = "A",  *)
(* 64 = "@", 32 = " "), wrapped by Str; None is PyNone.                    *)
(***************************************************************************)
EXTENDS Integers, Sequences, FiniteSets, TLC

VARIABLES users, seq, last,
          property_types, locations, categories, advertisements,
          photos, reviews, favorites, notifications,
          price, formatted

vars == <<users, seq, last, property_types, locations, categories,
          advertisements, photos, reviews, favorites, notifications,
          price, formatted>>

accountVars == <<users, seq, last>>
storeVars == <<property_types, locations, categories, advertisements,
               photos, reviews, favorites, notifications>>
priceVars == <<price, formatted>>

(* ------------------------------ bounds --------------------------------- *)
\* most accounts ever inserted (cap of the user table's primary-key counter)
MaxUsers == 2

(* --------------------------- Python values ----------------------------- *)
PyNone == [none |-> TRUE, s |-> <<>>]

Str(s) == [none |-> FALSE, s |-> s]

\* truth value of `not x` for x a str or None
Falsy(x) == x.none \/ x.s = <<>>

\* a plausible slip: `if email is None` in place of `if not email`
FalsyNoneOnly(x) == x.none

not_email(email) == Falsy(email)

\* str.lower on one code point
LowerChar(c) == IF c >= 65 /\ c =< 90 THEN c + 32 ELSE c

lower(s) == [i \in 1..Len(s) |-> LowerChar(s[i])]

IsSpace(c) == c = 32

RECURSIVE lstrip(_)
lstrip(s) == IF s # <<>> /\ IsSpace(Head(s)) THEN lstrip(Tail(s)) ELSE s

RECURSIVE rstrip(_)
rstrip(s) ==
  IF s # <<>> /\ IsSpace(s[Len(s)]) THEN rstrip(SubSeq(s, 1, Len(s) - 1)) ELSE s

strip(s) == rstrip(lstrip(s))

\* positions of "@" in s
AtPositions(s) == {i \in 1..Len(s) : s[i] = 64}

MaxOf(S) == CHOOSE m \in S : \A n \in S : n =< m

\* BaseUserManager.normalize_email: email or "", then, when the stripped
\* text holds an "@", the part after the last "@" is lower-cased; without an
\* "@" the text is returned as it came (not stripped).
normalize_email(email) ==
  LET e == IF Falsy(email) THEN <<>> ELSE email.s
      t == strip(e)
  IN  IF AtPositions(t) = {}
        THEN Str(e)
        ELSE LET k == MaxOf(AtPositions(t))
             IN  Str(SubSeq(t, 1, k - 1) \o <<64>>
                     \o lower(SubSeq(t, k + 1, Len(t))))

\* the hasher's digest of a plaintext under a salt, as one number
RECURSIVE Digest(_, _)
Digest(s, h) ==
  IF s = <<>> THEN 256 + h ELSE Digest(Tail(s), (h * 31 + Head(s)) % 9973)

\* a plausible slip: assigning the raw password (user.password = password)
make_password_plain(password, salt) == password

\* make_password: None gives an unusable password, "!" followed by random
\* text; a str gives "<algorithm>$<salt>$<digest>" (112 = "p", 36 = "$").
make_password(password, salt) ==
  IF password.none
    THEN Str(<<33, salt>>)
    ELSE Str(<<112, 36, salt, 36, Digest(password.s, salt)>>)

(* ------------------------------ inputs --------------------------------- *)
\* None, "", "a@A", " a@a ", "A@a"
Emails == {PyNone, Str(<<>>), Str(<<97, 64, 65>>),
           Str(<<32, 97, 64, 97, 32>>), Str(<<65, 64, 97>>)}

\* None (the default) and "a"
Passwords == {PyNone, Str(<<97>>)}

\* what the random salt can come out as
Salts == {1, 2}

FlagNames == {"is_staff", "is_superuser"}

\* **extra_fields: any subset of the flags, each with either value
ExtraFields == UNION {[D -> BOOLEAN] : D \in SUBSET FlagNames}

NoExtra == CHOOSE f \in ExtraFields : DOMAIN f = {}

(* ------------------------------ accounts ------------------------------- *)
\* a plausible slip: extra_fields[key] = value
setforce(d, key, value) ==
  [k \in DOMAIN d \cup {key} |-> IF k = key THEN value ELSE d[k]]

\* dict.setdefault(key, value), as a new dict
setdefault(d, key, value) ==
  [k \in DOMAIN d \cup {key} |-> IF k \in DOMAIN d THEN d[k] ELSE value]

Get(d, key, default) == IF key \in DOMAIN d THEN d[key] ELSE default

\* self.model(email=email, **extra_fields): the field defaults of User
\* (is_superuser comes from PermissionsMixin), then the keyword arguments
model(email, extra_fields) ==
  [id |-> 0, email |-> email, password |-> Str(<<>>),
   is_active |-> TRUE, is_agent |-> FALSE,
   is_staff |-> Get(extra_fields, "is_staff", FALSE),
   is_superuser |-> Get(extra_fields, "is_superuser", FALSE)]

set_password(user, raw_password, salt) ==
  [user EXCEPT !.password = make_password(raw_password, salt)]

\* a plausible slip: email declared without unique=True
EmailTakenNever(email) == FALSE

\* unique=True on User.email: the insert is refused when a row has the email
EmailTaken(email) == \E u \in users : u.email = email

\* what the last call left for its caller: the operation, the arguments it
\* was given, how it ended and, for an insert, the key of the new row
Returned(op, args, id) == [op |-> op, args |-> args, result |-> "ok", id |-> id]

Raised(op, args, error) == [op |-> op, args |-> args, result |-> error, id |-> 0]

\* the body of create_user; op names the entry point for the call record,
\* given is what the caller passed as **extra_fields
CreateUserBody(op, email, password, extra_fields, given, salt) ==
  IF not_email(email)
    THEN /\ last' = Raised(op, [email |-> email], "ValueError")
         /\ UNCHANGED <<users, seq>>
    ELSE LET e == normalize_email(email)
             user == set_password(model(e, extra_fields), password, salt)
         IN  IF EmailTaken(e)
               THEN /\ last' = Raised(op, [email |-> email], "IntegrityError")
                    /\ UNCHANGED <<users, seq>>
               ELSE /\ seq["user"] < MaxUsers
                    /\ users' = users \cup {[user EXCEPT !.id = seq["user"] + 1]}
                    /\ seq' = [seq EXCEPT !["user"] = @ + 1]
                    /\ last' = Returned(op, [email |-> email,
                                             password |-> password,
                                             extra |-> given],
                                        seq["user"] + 1)

create_user(email, password, extra_fields, salt) ==
  /\ CreateUserBody("create_user", email, password, extra_fields,
                    extra_fields, salt)
  /\ UNCHANGED <<storeVars, priceVars>>

create_superuser(email, password, extra_fields, salt) ==
  /\ CreateUserBody("create_superuser", email, password,
                    setdefault(setdefault(extra_fields, "is_staff", TRUE),
                               "is_superuser", TRUE),
                    extra_fields, salt)
  /\ UNCHANGED <<storeVars, priceVars>>

Tables == {"user", "property_type", "location", "category", "advertisement",
           "photo", "review", "favorite", "notification"}

InitAccounts ==
  /\ users = {}
  /\ seq = [t \in Tables |-> 0]
  /\ last = Raised("none", <<>>, "none")

InitStore ==
  /\ property_types = {} /\ locations = {} /\ categories = {}
  /\ advertisements = {} /\ photos = {} /\ reviews = {}
  /\ favorites = {} /\ notifications = {}

InitPrice == price = 0 /\ formatted = PyNone

Init == InitAccounts /\ InitStore /\ InitPrice

(* ------------------------------ the store ------------------------------ *)
\* most rows ever inserted, over all tables (cap of the key counters' sum)
MaxRows == 6

Inserted ==
  seq["user"] + seq["property_type"] + seq["location"] + seq["category"]
  + seq["advertisement"] + seq["photo"] + seq["review"] + seq["favorite"]
  + seq["notification"]

Room == Inserted < MaxRows

Ids(rows) == {r.id : r \in rows}

\* keys a caller can name for table t: every key handed out so far, the
\* deleted ones included
Keys(t) == 1..seq[t]

STATUS_CHOICES == {"draft", "active", "sold", "rented"}

NOTIFICATION_TYPE_CHOICES == {"new_ad", "ad_update", "ad_sold", "ad_rented"}

\* a keyword argument the caller may leave out
Omitted == [given |-> FALSE, v |-> ""]

Given(v) == [given |-> TRUE, v |-> v]

\* a plausible slip: choices not passed to the field
validate_choices_none(value, choices) == TRUE

\* Field.validate with choices: the value is one of the choices' keys
validate_choices(value, choices) == value \in choices

\* CharField: blank=False and the max_length validator
char_field_valid(value, max_length) == value # "" /\ Len(value) =< max_length

\* a plausible slip: limit taken as exclusive
MaxValueValidatorStrict(limit, value) == value < limit

\* MinValueValidator(limit) passes value >= limit, MaxValueValidator(limit)
\* passes value <= limit
MinValueValidator(limit, value) == value >= limit

MaxValueValidator(limit, value) == value =< limit

status_default == "draft"

\* Advertisement(...): status falls back to the field default
Advertisement(user, property_type, location, category, status) ==
  [id |-> 0, user |-> user, property_type |-> property_type,
   location |-> location, category |-> category,
   status |-> IF status.given THEN status.v ELSE status_default]

Photo(advertisement) == [id |-> 0, advertisement |-> advertisement]

Review(advertisement, user, rating) ==
  [id |-> 0, advertisement |-> advertisement, user |-> user, rating |-> rating]

FavoriteAdvertisement(user, advertisement) ==
  [id |-> 0, user |-> user, advertisement |-> advertisement]

Notification(user, advertisement, notification_type) ==
  [id |-> 0, user |-> user, advertisement |-> advertisement,
   notification_type |-> notification_type]

\* the foreign keys of each model that name no stored row
advertisement_missing(obj) ==
  {f \in {"user", "property_type", "location", "category"} :
     \/ f = "user" /\ obj.user \notin Ids(users)
     \/ f = "property_type" /\ obj.property_type \notin Ids(property_types)
     \/ f = "location" /\ obj.location \notin Ids(locations)
     \/ f = "category" /\ obj.category \notin Ids(categories)}

photo_missing(obj) ==
  {f \in {"advertisement"} : obj.advertisement \notin Ids(advertisements)}

review_missing(obj) ==
  {f \in {"advertisement", "user"} :
     \/ f = "advertisement" /\ obj.advertisement \notin Ids(advertisements)
     \/ f = "user" /\ obj.user \notin Ids(users)}

favorite_missing(obj) == review_missing(obj)

notification_missing(obj) == review_missing(obj)

\* full_clean: the fields whose validation fails (a foreign key is validated
\* by looking its row up)
advertisement_errors(obj) ==
  advertisement_missing(obj)
  \cup {f \in {"status"} : ~(/\ char_field_valid(obj.status, 10)
                             /\ validate_choices(obj.status, STATUS_CHOICES))}

review_errors(obj) ==
  review_missing(obj)
  \cup {f \in {"rating"} : ~(/\ MinValueValidator(0, obj.rating)
                             /\ MaxValueValidator(5, obj.rating))}

notification_errors(obj) ==
  notification_missing(obj)
  \cup {f \in {"notification_type"} : ~char_field_valid(obj.notification_type, 50)}

\* obj.full_clean() when clean, then obj.save(): how the call ends
Outcome(clean_errors, missing) ==
  IF clean_errors # {} THEN "ValidationError"
  ELSE IF missing # {} THEN "IntegrityError"
  ELSE "ok"

\* the key counter and the call record of a save; a validation error or a
\* foreign-key violation hands out no key
Save(op, table, args, outcome) ==
  IF outcome # "ok"
    THEN /\ last' = Raised(op, args, outcome)
         /\ UNCHANGED seq
    ELSE /\ Room
         /\ seq' = [seq EXCEPT ![table] = @ + 1]
         /\ last' = Returned(op, args, seq[table] + 1)

\* the table after the save: the row goes in, under the next key, when the
\* call ended well
Stored(rows, table, obj, outcome) ==
  IF outcome = "ok" THEN rows \cup {[obj EXCEPT !.id = seq[table] + 1]} ELSE rows

\* User(email=email).save(): the row goes in unless the email is taken
save_user(email) ==
  /\ IF EmailTaken(email)
       THEN /\ last' = Raised("save_user", [email |-> email], "IntegrityError")
            /\ UNCHANGED <<users, seq>>
       ELSE /\ Room /\ seq["user"] < MaxUsers
            /\ users' = users \cup {[model(email, NoExtra) EXCEPT !.id = seq["user"] + 1]}
            /\ seq' = [seq EXCEPT !["user"] = @ + 1]
            /\ last' = Returned("save_user", [email |-> email], seq["user"] + 1)
  /\ UNCHANGED <<storeVars, priceVars>>

save_property_type ==
  /\ Room
  /\ property_types' = property_types \cup {[id |-> seq["property_type"] + 1]}
  /\ seq' = [seq EXCEPT !["property_type"] = @ + 1]
  /\ last' = Returned("save_property_type", <<>>, seq["property_type"] + 1)
  /\ UNCHANGED <<users, locations, categories, advertisements, photos,
                 reviews, favorites, notifications, priceVars>>

save_location ==
  /\ Room
  /\ locations' = locations \cup {[id |-> seq["location"] + 1]}
  /\ seq' = [seq EXCEPT !["location"] = @ + 1]
  /\ last' = Returned("save_location", <<>>, seq["location"] + 1)
  /\ UNCHANGED <<users, property_types, categories, advertisements, photos,
                 reviews, favorites, notifications, priceVars>>

save_category ==
  /\ Room
  /\ categories' = categories \cup {[id |-> seq["category"] + 1]}
  /\ seq' = [seq EXCEPT !["category"] = @ + 1]
  /\ last' = Returned("save_category", <<>>, seq["category"] + 1)
  /\ UNCHANGED <<users, property_types, locations, advertisements, photos,
                 reviews, favorites, notifications, priceVars>>

save_advertisement(user, property_type, location, category, status, clean) ==
  LET obj == Advertisement(user, property_type, location, category, status)
      args == [user |-> user, property_type |-> property_type,
               location |-> location, category |-> category,
               status |-> status, clean |-> clean]
      outcome == Outcome(IF clean THEN advertisement_errors(obj) ELSE {},
                         advertisement_missing(obj))
  IN  /\ Save("save_advertisement", "advertisement", args, outcome)
      /\ advertisements' = Stored(advertisements, "advertisement", obj, outcome)
      /\ UNCHANGED <<users, property_types, locations, categories, photos,
                     reviews, favorites, notifications, priceVars>>

save_photo(advertisement) ==
  LET obj == Photo(advertisement)
      outcome == Outcome({}, photo_missing(obj))
  IN  /\ Save("save_photo", "photo", [advertisement |-> advertisement], outcome)
      /\ photos' = Stored(photos, "photo", obj, outcome)
      /\ UNCHANGED <<users, property_types, locations, categories,
                     advertisements, reviews, favorites, notifications,
                     priceVars>>

save_review(advertisement, user, rating, clean) ==
  LET obj == Review(advertisement, user, rating)
      args == [advertisement |-> advertisement, user |-> user,
               rating |-> rating, clean |-> clean]
      outcome == Outcome(IF clean THEN review_errors(obj) ELSE {},
                         review_missing(obj))
  IN  /\ Save("save_review", "review", args, outcome)
      /\ reviews' = Stored(reviews, "review", obj, outcome)
      /\ UNCHANGED <<users, property_types, locations, categories,
                     advertisements, photos, favorites, notifications,
                     priceVars>>

save_favorite(user, advertisement) ==
  LET obj == FavoriteAdvertisement(user, advertisement)
      outcome == Outcome({}, favorite_missing(obj))
  IN  /\ Save("save_favorite", "favorite",
              [user |-> user, advertisement |-> advertisement], outcome)
      /\ favorites' = Stored(favorites, "favorite", obj, outcome)
      /\ UNCHANGED <<users, property_types, locations, categories,
                     advertisements, photos, reviews, notifications,
                     priceVars>>

save_notification(user, advertisement, notification_type, clean) ==
  LET obj == Notification(user, advertisement, notification_type)
      args == [user |-> user, advertisement |-> advertisement,
               notification_type |-> notification_type, clean |-> clean]
      outcome == Outcome(IF clean THEN notification_errors(obj) ELSE {},
                         notification_missing(obj))
  IN  /\ Save("save_notification", "notification", args, outcome)
      /\ notifications' = Stored(notifications, "notification", obj, outcome)
      /\ UNCHANGED <<users, property_types, locations, categories,
                     advertisements, photos, reviews, favorites, priceVars>>

\* on_delete=CASCADE, one operator per foreign key: the rows that go when
\* the rows they name go
Advertisement_user(us) == {a \in advertisements : a.user \in Ids(us)}

Advertisement_property_type(pts) ==
  {a \in advertisements : a.property_type \in Ids(pts)}

Advertisement_location(ls) == {a \in advertisements : a.location \in Ids(ls)}

Advertisement_category(cs) == {a \in advertisements : a.category \in Ids(cs)}

\* a plausible slip: on_delete=models.DO_NOTHING on Photo.advertisement
Photo_advertisement_do_nothing(ads) == {}

Photo_advertisement(ads) == {p \in photos : p.advertisement \in Ids(ads)}

Review_advertisement(ads) == {r \in reviews : r.advertisement \in Ids(ads)}

Review_user(us) == {r \in reviews : r.user \in Ids(us)}

Favorite_user(us) == {f \in favorites : f.user \in Ids(us)}

Favorite_advertisement(ads) == {f \in favorites : f.advertisement \in Ids(ads)}

Notification_user(us) == {n \in notifications : n.user \in Ids(us)}

Notification_advertisement(ads) ==
  {n \in notifications : n.advertisement \in Ids(ads)}

\* Model.delete(): the rows named, then every row reached over the cascading
\* foreign keys; returns the number of rows deleted
Delete(op, pk, U, PT, L, C, A0, P0, R0, F0, N0) ==
  LET A == A0 \cup Advertisement_user(U) \cup Advertisement_property_type(PT)
             \cup Advertisement_location(L) \cup Advertisement_category(C)
      P == P0 \cup Photo_advertisement(A)
      R == R0 \cup Review_advertisement(A) \cup Review_user(U)
      F == F0 \cup Favorite_user(U) \cup Favorite_advertisement(A)
      N == N0 \cup Notification_user(U) \cup Notification_advertisement(A)
  IN  /\ users' = users \ U
      /\ property_types' = property_types \ PT
      /\ locations' = locations \ L
      /\ categories' = categories \ C
      /\ advertisements' = advertisements \ A
      /\ photos' = photos \ P
      /\ reviews' = reviews \ R
      /\ favorites' = favorites \ F
      /\ notifications' = notifications \ N
      /\ last' = Returned(op, [pk |-> pk,
                               deleted |-> Cardinality(U) + Cardinality(PT)
                                 + Cardinality(L) + Cardinality(C)
                                 + Cardinality(A) + Cardinality(P)
                                 + Cardinality(R) + Cardinality(F)
                                 + Cardinality(N)], 0)
      /\ UNCHANGED <<seq, priceVars>>

delete_user(u) ==
  Delete("delete_user", u.id, {u}, {}, {}, {}, {}, {}, {}, {}, {})

delete_property_type(pt) ==
  Delete("delete_property_type", pt.id, {}, {pt}, {}, {}, {}, {}, {}, {}, {})

delete_location(l) ==
  Delete("delete_location", l.id, {}, {}, {l}, {}, {}, {}, {}, {}, {})

delete_category(c) ==
  Delete("delete_category", c.id, {}, {}, {}, {c}, {}, {}, {}, {}, {})

delete_advertisement(a) ==
  Delete("delete_advertisement", a.id, {}, {}, {}, {}, {a}, {}, {}, {}, {})

delete_photo(p) ==
  Delete("delete_photo", p.id, {}, {}, {}, {}, {}, {p}, {}, {}, {})

delete_review(r) ==
  Delete("delete_review", r.id, {}, {}, {}, {}, {}, {}, {r}, {}, {})

delete_favorite(f) ==
  Delete("delete_favorite", f.id, {}, {}, {}, {}, {}, {}, {}, {f}, {})

delete_notification(n) ==
  Delete("delete_notification", n.id, {}, {}, {}, {}, {}, {}, {}, {}, {n})

(* --------------------------- formatted_price --------------------------- *)
\* Advertisement.price is a Decimal with two decimal places; the model holds
\* it in hundredths (kopecks), so 999.00 is 99900.
MILLION == 1000000

THOUSAND == 1000

\* decimal digits of n >= 0 as code points (48 = "0")
RECURSIVE Digits(_)
Digits(n) == IF n < 10 THEN <<48 + n>> ELSE Digits(n \div 10) \o <<48 + (n % 10)>>

\* n / d rounded to an integer, ties to even (the decimal context's
\* ROUND_HALF_EVEN, which format() applies)
RoundHalfEven(n, d) ==
  LET q == n \div d
      r == n % d
  IN  IF 2 * r > d \/ (2 * r = d /\ q % 2 = 1) THEN q + 1 ELSE q

\* a plausible slip: format spec .1f
format_1f(hundredths, divisor) ==
  LET q == RoundHalfEven(hundredths, divisor * 10)
  IN  Digits(q \div 10) \o <<46>> \o <<48 + (q % 10)>>

\* f"{price / divisor:.2f}" for price = hundredths / 100 (46 = ".")
format_2f(hundredths, divisor) ==
  LET q == RoundHalfEven(hundredths, divisor)
  IN  Digits(q \div 100) \o <<46>> \o <<48 + ((q \div 10) % 10), 48 + (q % 10)>>

\* " млн", " тыс", " руб." as code points
SUFFIX_MLN == <<32, 1084, 1083, 1085>>

SUFFIX_TYS == <<32, 1090, 1099, 1089>>

SUFFIX_RUB == <<32, 1088, 1091, 1073, 46>>

\* a plausible slip: > in place of >= in both comparisons
formatted_price_gt(p) ==
  IF p > MILLION * 100
    THEN format_2f(p, MILLION) \o SUFFIX_MLN
    ELSE IF p > THOUSAND * 100
      THEN format_2f(p, THOUSAND) \o SUFFIX_TYS
      ELSE format_2f(p, 1) \o SUFFIX_RUB

formatted_price(p) ==
  IF p >= MILLION * 100
    THEN format_2f(p, MILLION) \o SUFFIX_MLN
    ELSE IF p >= THOUSAND * 100
      THEN format_2f(p, THOUSAND) \o SUFFIX_TYS
      ELSE format_2f(p, 1) \o SUFFIX_RUB

\* how far around each base price the checked prices reach, in steps
PriceSpread == 30

\* 0.00, 999.00, 1000.00, 1500.00, 1000000.00, 2340000.00 in hundredths
PriceBases == {0, 99900, 100000, 150000, 100000000, 234000000}

\* 0.01, 5.00 and 5000.00: the last two land on rounding ties after scaling
PriceSteps == {1, 500, 500000}

Prices ==
  {p \in {b + k * st : b \in PriceBases, k \in (0 - PriceSpread)..PriceSpread,
                        st \in PriceSteps} : p >= 0}

(* --------------------------- specifications ---------------------------- *)
CallCreateUser ==
  \E email \in Emails, password \in Passwords,
     extra_fields \in ExtraFields, salt \in Salts :
    create_user(email, password, extra_fields, salt)

CallCreateSuperuser ==
  \E email \in Emails, password \in Passwords,
     extra_fields \in ExtraFields, salt \in Salts :
    create_superuser(email, password, extra_fields, salt)

Next == CallCreateUser \/ CallCreateSuperuser

\* the account manager under every input
Spec == Init /\ [][Next]_vars

\* "a@a", "A@a"
StoreEmails == {Str(<<97, 64, 97>>), Str(<<65, 64, 97>>)}

\* "archived" and "" are no status
StatusInputs ==
  {Omitted} \cup {Given(v) : v \in STATUS_CHOICES \cup {"archived", ""}}

RatingInputs == {0 - 1, 0, 3, 5, 6}

\* "promo" is no notification type
TypeInputs == NOTIFICATION_TYPE_CHOICES \cup {"promo", ""}

SaveUser == \E email \in StoreEmails : save_user(email)

SaveAdvertisement(statuses, cleans) ==
  \E user \in Keys("user"), property_type \in Keys("property_type"),
     location \in Keys("location"), category \in Keys("category"),
     status \in statuses, clean \in cleans :
    save_advertisement(user, property_type, location, category, status, clean)

SavePhoto == \E advertisement \in Keys("advertisement") : save_photo(advertisement)

SaveReview(ratings, cleans) ==
  \E advertisement \in Keys("advertisement"), user \in Keys("user"),
     rating \in ratings, clean \in cleans :
    save_review(advertisement, user, rating, clean)

SaveFavorite ==
  \E user \in Keys("user"), advertisement \in Keys("advertisement") :
    save_favorite(user, advertisement)

SaveNotification(types, cleans) ==
  \E user \in Keys("user"), advertisement \in Keys("advertisement"),
     notification_type \in types, clean \in cleans :
    save_notification(user, advertisement, notification_type, clean)

DeleteUser == \E u \in users : delete_user(u)

DeletePropertyType == \E pt \in property_types : delete_property_type(pt)

DeleteLocation == \E l \in locations : delete_location(l)

DeleteCategory == \E c \in categories : delete_category(c)

DeleteAdvertisement == \E a \in advertisements : delete_advertisement(a)

DeletePhoto == \E p \in photos : delete_photo(p)

DeleteReview == \E r \in reviews : delete_review(r)

DeleteFavorite == \E f \in favorites : delete_favorite(f)

DeleteNotification == \E n \in notifications : delete_notification(n)

\* inserts with the fields no foreign key depends on left at one value,
\* and deletes
NextStore ==
  \/ SaveUser
  \/ save_property_type
  \/ save_location
  \/ save_category
  \/ SaveAdvertisement({Omitted}, {FALSE})
  \/ SavePhoto
  \/ SaveReview({5}, {FALSE})
  \/ SaveFavorite
  \/ SaveNotification({"new_ad"}, {FALSE})
  \/ DeleteUser
  \/ DeletePropertyType
  \/ DeleteLocation
  \/ DeleteCategory
  \/ DeleteAdvertisement
  \/ DeletePhoto
  \/ DeleteReview
  \/ DeleteFavorite
  \/ DeleteNotification

\* the store under inserts and cascading deletes
SpecStore == Init /\ [][NextStore]_vars

\* inserts with every status, rating and notification type, saved with and
\* without full_clean()
NextValidation ==
  \/ SaveUser
  \/ save_property_type
  \/ save_location
  \/ save_category
  \/ SaveAdvertisement(StatusInputs, BOOLEAN)
  \/ SaveReview(RatingInputs, BOOLEAN)
  \/ SaveNotification(TypeInputs, BOOLEAN)

\* the store under validated and unvalidated inserts
SpecValidation == Init /\ [][NextValidation]_vars

CallFormattedPrice ==
  /\ formatted.none
  /\ formatted' = Str(formatted_price(price))
  /\ UNCHANGED <<price, accountVars, storeVars>>

InitPriced ==
  /\ InitAccounts /\ InitStore
  /\ price \in Prices /\ formatted = PyNone

NextPrice == CallFormattedPrice

SpecPrice == InitPriced /\ [][NextPrice]_vars

(* ------------------------- claims on accounts -------------------------- *)
AccountOps == {"create_user", "create_superuser"}

\* C1: create_user (reached directly or through create_superuser) called with
\* an email that is None or "" ends in ValueError, whatever the password and
\* extra fields, and the step leaves the user table and its key counter as
\* they were.
C1_EmptyEmailRejectedBeforeWrite ==
  [][(last'.op \in AccountOps /\ Falsy(last'.args.email))
       => (last'.result = "ValueError" /\ users' = users /\ seq' = seq)]_vars

\* C1 witness: "" was refused while an account was already stored
C1_Witness ==
  /\ last.op = "create_user" /\ last.result = "ValueError"
  /\ last.args.email = Str(<<>>)
  /\ users # {}

\* C2: a step never changes or drops a stored account, and every account it
\* adds holds make_password of the password the call was given (None when
\* omitted), which differs from that password.
C2_PasswordNeverStoredPlain ==
  [][/\ users \subseteq users'
     /\ \A u \in users' \ users :
          /\ last'.result = "ok" /\ last'.id = u.id
          /\ u.password # last'.args.password
          /\ \E salt \in Salts :
                u.password = make_password(last'.args.password, salt)]_vars

\* C2 witness: a second account, created with the password omitted
C2_Witness ==
  /\ last.result = "ok" /\ last.args.password = PyNone
  /\ Cardinality(users) = 2
  /\ \E u \in users : u.id = last.id /\ ~u.password.none

UniqueEmails == \A u, v \in users : u.email = v.email => u = v

\* C3: stored emails stay pairwise different; a creation whose normalized
\* email is already stored ends in IntegrityError and adds no account, and
\* IntegrityError is raised in that case only.
C3_NormalizedEmailUnique ==
  [][/\ UniqueEmails'
     /\ (last'.op \in AccountOps /\ ~Falsy(last'.args.email)
          /\ \E u \in users : u.email = normalize_email(last'.args.email))
         => (last'.result = "IntegrityError" /\ users' = users)
     /\ last'.result = "IntegrityError"
         => (\E u \in users : u.email = normalize_email(last'.args.email))]_vars

\* C3 witness: " a@a " refused because "a@a" is stored
C3_Witness ==
  /\ last.result = "IntegrityError"
  /\ last.args.email = Str(<<32, 97, 64, 97, 32>>)
  /\ \E u \in users : u.email = Str(<<97, 64, 97>>)
  /\ \A u \in users : u.email # last.args.email

\* C4: an account created by create_superuser has is_staff and is_superuser
\* as the caller passed them, True where the caller passed none, and is in
\* every other field what create_user builds from the same email and
\* password.
C4_SuperuserFlags ==
  [][(last'.op = "create_superuser" /\ last'.result = "ok")
       => \E u \in users' \ users :
            LET x == last'.args.extra
                flags == [is_staff |-> Get(x, "is_staff", TRUE),
                          is_superuser |-> Get(x, "is_superuser", TRUE)]
            IN  /\ u.id = last'.id
                /\ u.is_staff = flags.is_staff
                /\ u.is_superuser = flags.is_superuser
                /\ \E salt \in Salts :
                      u = [set_password(
                             model(normalize_email(last'.args.email), flags),
                             last'.args.password, salt)
                           EXCEPT !.id = last'.id]]_vars

\* C4 witness: is_staff=False passed and kept, is_superuser defaulted to True
C4_Witness ==
  /\ last.op = "create_superuser" /\ last.result = "ok"
  /\ DOMAIN last.args.extra = {"is_staff"} /\ ~last.args.extra["is_staff"]
  /\ \E u \in users : u.id = last.id /\ ~u.is_staff /\ u.is_superuser

(* -------------------------- claims on the store ------------------------ *)
\* C5: every foreign key of every stored row names a stored row, after any
\* run of inserts and deletes: a delete takes with it the advertisements
\* that name the deleted account, property type, location or category, and
\* the photos, reviews, favorites and notifications that name a deleted
\* advertisement or account.
C5_NoDanglingReferences ==
  /\ \A a \in advertisements : advertisement_missing(a) = {}
  /\ \A p \in photos : p.advertisement \in Ids(advertisements)
  /\ \A r \in reviews :
       r.advertisement \in Ids(advertisements) /\ r.user \in Ids(users)
  /\ \A f \in favorites :
       f.advertisement \in Ids(advertisements) /\ f.user \in Ids(users)
  /\ \A n \in notifications :
       n.advertisement \in Ids(advertisements) /\ n.user \in Ids(users)

\* C5 witness: deleting an account took its advertisement and that
\* advertisement's photo with it
C5_Witness ==
  /\ last.op = "delete_user" /\ last.args.deleted = 3
  /\ seq["advertisement"] = 1 /\ advertisements = {}
  /\ seq["photo"] = 1 /\ photos = {}
  /\ property_types # {}

\* C8: a Review saved after full_clean() is stored with its rating when the
\* rating is in 0..5 (and its foreign keys name stored rows), and is refused
\* with a validation error, the table unchanged, when the rating is below 0
\* or above 5; stored reviews are never changed.
C8_RatingRange ==
  [][/\ reviews \subseteq reviews'
     /\ (last'.op = "save_review" /\ last'.args.clean)
        => LET a == last'.args
               inRange == a.rating >= 0 /\ a.rating =< 5
               refs == review_missing(Review(a.advertisement, a.user, a.rating)) = {}
           IN  /\ (inRange /\ refs)
                   => /\ last'.result = "ok"
                      /\ \E r \in reviews' \ reviews :
                            r.id = last'.id /\ r.rating = a.rating
               /\ ~inRange
                   => (last'.result = "ValidationError" /\ reviews' = reviews)]_vars

\* C8 witness: rating 6 refused by validation while a review rated 5 is stored
C8_Witness ==
  /\ last.op = "save_review" /\ last.args.clean /\ last.args.rating = 6
  /\ last.result = "ValidationError"
  /\ \E r \in reviews : r.rating = 5

\* C9: an Advertisement saved after full_clean() is stored when its status is
\* draft, active, sold or rented (and its foreign keys name stored rows) and
\* refused with a validation error otherwise; one created without a status
\* is stored with status draft; stored advertisements are never changed.
C9_StatusChoices ==
  [][/\ advertisements \subseteq advertisements'
     /\ last'.op = "save_advertisement"
        => LET a == last'.args
               st == IF a.status.given THEN a.status.v ELSE "draft"
               listed == st \in {"draft", "active", "sold", "rented"}
               refs == advertisement_missing(
                         Advertisement(a.user, a.property_type, a.location,
                                       a.category, a.status)) = {}
           IN  /\ (a.clean /\ listed /\ refs) => last'.result = "ok"
               /\ (a.clean /\ ~listed)
                   => (last'.result = "ValidationError"
                       /\ advertisements' = advertisements)
               /\ last'.result = "ok"
                   => \E row \in advertisements' \ advertisements :
                        row.id = last'.id /\ row.status = st]_vars

\* C9 witness: an advertisement created without a status passed validation
\* and is stored as draft
C9_Witness ==
  /\ last.op = "save_advertisement" /\ last.args.clean
  /\ ~last.args.status.given /\ last.result = "ok"
  /\ \E row \in advertisements : row.id = last.id /\ row.status = "draft"

\* C10: a Notification saved after full_clean() whose notification_type is
\* none of new_ad, ad_update, ad_sold, ad_rented is refused with a
\* validation error.
C10_TypeTagRestricted ==
  (last.op = "save_notification" /\ last.args.clean)
    => \/ last.args.notification_type
            \in {"new_ad", "ad_update", "ad_sold", "ad_rented"}
       \/ last.result = "ValidationError"

(* ---------------------- claims on formatted_price ---------------------- *)
\* position of the first " " in s
SpaceAt(s) == CHOOSE i \in 1..Len(s) : s[i] = 32 /\ \A j \in 1..(i - 1) : s[j] # 32

RECURSIVE ParseInt(_)
ParseInt(s) ==
  IF s = <<>> THEN 0 ELSE 10 * ParseInt(SubSeq(s, 1, Len(s) - 1)) + (s[Len(s)] - 48)

IsDigits(s) == s # <<>> /\ \A i \in 1..Len(s) : s[i] >= 48 /\ s[i] =< 57

\* the number in front of the suffix reads <digits>.<two digits>, and is the
\* two-decimal value nearest to hundredths / (100 * divisor)
RendersScaled(text, hundredths, divisor) ==
  LET num == SubSeq(text, 1, SpaceAt(text) - 1)
      n == Len(num)
      q == 100 * ParseInt(SubSeq(num, 1, n - 3)) + ParseInt(SubSeq(num, n - 1, n))
      d == q * divisor - hundredths
  IN  /\ n >= 4 /\ num[n - 2] = 46
      /\ IsDigits(SubSeq(num, 1, n - 3)) /\ IsDigits(SubSeq(num, n - 1, n))
      /\ 2 * d =< divisor /\ 2 * (0 - d) =< divisor

SuffixOf(text) == SubSeq(text, SpaceAt(text), Len(text))

\* C6: the branch is picked by the unscaled price: from 1,000,000 on, the
\* price over 1,000,000 with two decimals and " млн"; from 1,000 up to but
\* not including 1,000,000, the price over 1,000 with two decimals and
\* " тыс"; below 1,000 the price itself with two decimals and " руб.".
\* 1,000 and 1,000,000 themselves fall in the higher branch.
C6_BranchByUnscaledPrice ==
  ~formatted.none =>
    LET t == formatted.s
    IN  /\ price >= 100000000
            => (SuffixOf(t) = SUFFIX_MLN /\ RendersScaled(t, price, 1000000))
        /\ (price >= 100000 /\ price < 100000000)
            => (SuffixOf(t) = SUFFIX_TYS /\ RendersScaled(t, price, 1000))
        /\ price < 100000
            => (SuffixOf(t) = SUFFIX_RUB /\ RendersScaled(t, price, 1))

\* C6 witness: 1000.00 itself was formatted, as "1.00 тыс"
C6_Witness ==
  /\ price = 100000 /\ ~formatted.none
  /\ formatted.s = <<49, 46, 48, 48>> \o SUFFIX_TYS

\* C7 as stated: formatted_price of 999 is "9.99 руб."
C7_Original ==
  (price = 99900 /\ ~formatted.none)
    => formatted.s = <<57, 46, 57, 57>> \o SUFFIX_RUB

\* C7 amended: formatted_price of 999 is "999.00 руб."
C7_Formats999 ==
  (price = 99900 /\ ~formatted.none)
    => formatted.s = <<57, 57, 57, 46, 48, 48>> \o SUFFIX_RUB

\* C7 witness: 999.00 was formatted
C7_Witness == price = 99900 /\ ~formatted.none /\ Len(formatted.s) = 11

====
